---- MODULE Spec2Model ----
(***************************************************************************)
(* Model of src/app.go: the Org2 peer of a two-party iterative negotiation *)
(* over a Hyperledger Fabric contract.  main registers for the contract    *)
(* event "Org2", then loops: receive one event from the notifier channel,  *)
(* decode Lambda and Mismatch from its payload (getLambda, getMismatch),   *)
(* run update, format the new lambda and mismatch with %v and submit them  *)
(* as the transaction "SendUpdate"; the loop breaks when update returns    *)
(* terminate = true.  After the loop main unregisters, asks the operator   *)
(* "Clean up?" on stdin and returns.                                       *)
(*                                                                         *)
(* Numbers.  The program computes in float64: a binary significand of 53    *)
(* bits, every operation rounded to the nearest value, ties to even, with   *)
(* +Inf, -Inf and NaN.  The model computes in the same kind of arithmetic   *)
(* with a decimal significand of Precision digits: a number is <<m, e>>,    *)
(* the value m * 10^e, every operation rounded to the nearest such number,  *)
(* ties to even.  The exponent is not limited and there is no negative      *)
(* zero.  Text is a sequence of one-character strings.                      *)
(***************************************************************************)
EXTENDS Integers, Sequences, FiniteSets, TLC

\* ------------------------------------------------------------------ bounds
\* Most events the external producer delivers in one run.
MaxEvents == 3
\* Most events waiting in the notifier channel at once.
MaxQueue == 2
\* Most lines the operator types on stdin in one run.
MaxStdin == 1
\* Most events a peer that echoes every publish delivers in one run.
MaxRounds == 80
\* Largest iter update is applied to on its own.
MaxIterArg == 21

\* ------------------------------------------------------------- arithmetic
\* Significant decimal digits a number carries.
Precision == 4
\* The exponent that marks +Inf <<1, InfExp>>, -Inf <<-1, InfExp>> and
\* NaN <<0, InfExp>>.
InfExp == 9999

Abs(n) == IF n < 0 THEN -n ELSE n

\* The one element of a one-element set.  The arithmetic below binds each
\* operand as the element of a one-element set, so that an operand is worked
\* out once however often the result uses it.
Only(S) == CHOOSE v \in S : TRUE

RECURSIVE Pow10(_)
Pow10(k) == IF k = 0 THEN 1 ELSE 10 * Pow10(k - 1)

RECURSIVE NumDigits(_)
NumDigits(n) == IF n < 10 THEN 1 ELSE 1 + NumDigits(n \div 10)

Zero == <<0, 0>>
PosInf == <<1, InfExp>>
NegInf == <<-1, InfExp>>
NaN == <<0, InfExp>>
IsFinite(x) == x[2] # InfExp
IsNaN(x) == x = NaN

\* n >= 0 without its last k digits, rounded to nearest, ties to even.
RoundDrop(n, k) ==
    LET p == Pow10(k)
        q == n \div p
        r == n % p
    IN  IF 2 * r > p \/ (2 * r = p /\ q % 2 = 1) THEN q + 1 ELSE q

RECURSIVE StripZeros(_, _)
StripZeros(m, e) ==
    IF m # 0 /\ m % 10 = 0 THEN StripZeros(m \div 10, e + 1) ELSE <<m, e>>

\* The number nearest to m * 10^e: at most Precision digits, no trailing zero.
Norm(m, e) ==
    Only({ IF v[1] = 0 THEN Zero
           ELSE LET a == Abs(v[1])
                    k == IF NumDigits(a) > Precision
                         THEN NumDigits(a) - Precision ELSE 0
                    z == StripZeros(RoundDrop(a, k), v[2] + k)
                IN  <<(IF v[1] < 0 THEN -1 ELSE 1) * z[1], z[2]>> :
           v \in {<<m, e>>} })

\* n, d > 0: n scaled by tens until n / d has Precision digits before the point.
RECURSIVE ScaleUp(_, _, _)
ScaleUp(n, d, s) ==
    IF n >= d * Pow10(Precision - 1) THEN <<n, s>> ELSE ScaleUp(10 * n, d, s + 1)

\* float64(n) / float64(d) for integers below 10^Precision: the quotient
\* rounded to nearest, ties to even; x / 0 is +Inf, -Inf or NaN.
Rat(n, d) ==
    Only({ IF v[2] = 0
           THEN (IF v[1] > 0 THEN PosInf ELSE IF v[1] < 0 THEN NegInf ELSE NaN)
           ELSE IF v[1] = 0 THEN Zero
           ELSE LET t == ScaleUp(Abs(v[1]), Abs(v[2]), 0)
                    q == t[1] \div Abs(v[2])
                    r == t[1] % Abs(v[2])
                    up == 2 * r > Abs(v[2]) \/ (2 * r = Abs(v[2]) /\ q % 2 = 1)
                    z == Norm(IF up THEN q + 1 ELSE q, -t[2])
                IN  IF (v[1] < 0) # (v[2] < 0) THEN <<-z[1], z[2]>> ELSE z :
           v \in {<<n, d>>} })

RInt(n) == Norm(n, 0)
RNeg(x) == Only({<<-a[1], a[2]>> : a \in {x}})
RAbs(x) == Only({<<Abs(a[1]), a[2]>> : a \in {x}})

\* Decimal exponent of a finite x # 0: the E with 10^E <= |x| < 10^(E+1).
Exp10(x) == x[2] + NumDigits(Abs(x[1])) - 1

\* x + y of two finite numbers: a term too small to reach the rounding digit
\* of the other is dropped, otherwise the exact sum is rounded.
AddFinite(a, b) ==
    IF a[1] = 0 THEN b
    ELSE IF b[1] = 0 THEN a
    ELSE IF Exp10(a) - Exp10(b) > Precision + 1 THEN a
    ELSE IF Exp10(b) - Exp10(a) > Precision + 1 THEN b
    ELSE LET e == IF a[2] < b[2] THEN a[2] ELSE b[2]
         IN  Norm(a[1] * Pow10(a[2] - e) + b[1] * Pow10(b[2] - e), e)

RAdd(x, y) ==
    Only({ IF IsNaN(a) \/ IsNaN(b) THEN NaN
           ELSE IF ~IsFinite(a) THEN (IF IsFinite(b) \/ a = b THEN a ELSE NaN)
           ELSE IF ~IsFinite(b) THEN b
           ELSE AddFinite(a, b) :
           a \in {x}, b \in {y} })
RSub(x, y) == RAdd(x, RNeg(y))
RMul(x, y) ==
    Only({ IF IsNaN(a) \/ IsNaN(b) THEN NaN
           ELSE IF ~IsFinite(a) \/ ~IsFinite(b)
           THEN (IF a[1] = 0 \/ b[1] = 0 THEN NaN
                 ELSE IF (a[1] < 0) # (b[1] < 0) THEN NegInf ELSE PosInf)
           ELSE Norm(a[1] * b[1], a[2] + b[2]) :
           a \in {x}, b \in {y} })
\* x < y; false when either is NaN.
RLt(x, y) == RSub(y, x)[1] > 0

\* ------------------------------------------------------------------- text
DigitChars == <<"0", "1", "2", "3", "4", "5", "6", "7", "8", "9">>
IsDigit(c) == \E i \in 1..10 : DigitChars[i] = c
DigitVal(c) == (CHOOSE i \in 1..10 : DigitChars[i] = c) - 1

\* The character class [0-9.-] of both patterns.
InClass(c) == IsDigit(c) \/ c = "." \/ c = "-"

LambdaMarker == <<"L", "a", "m", "b", "d", "a", "=">>
MismatchMarker == <<"M", "i", "s", "m", "a", "t", "c", "h", "=">>
LambdaAhead == <<",">>
MismatchAhead == <<",", " ", "e", "n", "d">>

\* What fmt.Sprintf("%v", value) gives for a nil *regexp2.Match.
NilText == <<"<", "n", "i", "l", ">">>

\* s[i..j], empty when the range leaves s.
Cut(s, i, j) == IF i >= 1 /\ j <= Len(s) /\ i <= j THEN SubSeq(s, i, j) ELSE <<>>

\* Last index of the longest run of class characters of s that starts at i
\* (i - 1 when s[i] is not in the class).
RECURSIVE RunEnd(_, _)
RunEnd(s, i) ==
    IF i <= Len(s) /\ InClass(s[i]) THEN RunEnd(s, i + 1) ELSE i - 1

\* The pattern (?<=behind)[0-9.-]+(?=ahead) matches at i: the text before i
\* ends with behind, a non-empty greedy run follows, and ahead follows the run
\* (a shorter run is followed by a class character, never by ahead).
MatchesAt(s, i, behind, ahead) ==
    LET j == RunEnd(s, i)
    IN  /\ Cut(s, i - Len(behind), i - 1) = behind
        /\ j >= i
        /\ Cut(s, j + 1, j + Len(ahead)) = ahead

\* reg.FindStringMatch followed by fmt.Sprintf("%v", value): the text of the
\* leftmost match, or "<nil>" when nothing matches.
FindStringMatch(s, behind, ahead) ==
    Only({ Only({ IF starts = {}
                  THEN NilText
                  ELSE Only({SubSeq(u, i, RunEnd(u, i)) :
                             i \in {k \in starts : \A o \in starts : k <= o}}) :
                  starts \in {{i \in 1..Len(u) : MatchesAt(u, i, behind, ahead)}} }) :
           u \in {s} })

\* The digits of t read as a decimal integer.
RECURSIVE DigitsVal(_)
DigitsVal(t) ==
    Only({ IF u = <<>> THEN 0
           ELSE 10 * DigitsVal(SubSeq(u, 1, Len(u) - 1)) + DigitVal(u[Len(u)]) :
           u \in {t} })

\* strconv.ParseFloat(t, 64) on a text of the characters a pattern captures:
\* an optional leading "-", digits with at most one ".", at least one digit;
\* the value is the number nearest to the decimal read.
ParseFloat(t) ==
    Only({ LET neg == u # <<>> /\ u[1] = "-"
           IN  Only({ LET dots == {i \in 1..Len(body) : body[i] = "."}
                          ok == /\ \A i \in 1..Len(body) :
                                      IsDigit(body[i]) \/ body[i] = "."
                                /\ Cardinality(dots) <= 1
                                /\ \E i \in 1..Len(body) : IsDigit(body[i])
                          frac == IF dots = {} THEN 0
                                  ELSE Len(body) - (CHOOSE i \in dots : TRUE)
                          mag == Norm(DigitsVal(SelectSeq(body, IsDigit)), -frac)
                      IN  IF ok
                          THEN [err |-> FALSE,
                                val |-> IF neg THEN RNeg(mag) ELSE mag]
                          ELSE [err |-> TRUE, val |-> RInt(0)] :
                      body \in {IF neg THEN Tail(u) ELSE u} }) :
           u \in {t} })

\* getLambda that reports 0 instead of panicking.
getLambdaSilentZero(s) ==
    [err |-> FALSE,
     val |-> ParseFloat(FindStringMatch(s, LambdaMarker, LambdaAhead)).val]

\* getLambda / getMismatch: the captured number, or a panic (log.Panic) when
\* ParseFloat rejects the captured text.
getLambda(s) == ParseFloat(FindStringMatch(s, LambdaMarker, LambdaAhead))
getMismatch(s) == ParseFloat(FindStringMatch(s, MismatchMarker, MismatchAhead))

\* ----------------------------------------------------------------- update
\* The floor of the step size (0.05), the weight of each side (0.5), the
\* clamp of P (0 and 8) and the convergence tolerance (0.05).
EtaMin == Rat(5, 100)
Half == Rat(1, 2)
PMin == RInt(0)
PMax == RInt(8)
Tolerance == Rat(5, 100)

\* The step size with the floor lost.
StepSizeNoFloor(it) == Rat(1, it)

\* eta := 1 / float64(iter), raised to 0.05 when below it; +Inf for iter = 0.
StepSize(it) ==
    LET eta == Rat(1, it)
    IN  IF RLt(eta, EtaMin) THEN EtaMin ELSE eta

\* Clamp with the upper branch lost.
ClampLowerOnly(p) == Only({IF RLt(v, PMin) THEN PMin ELSE v : v \in {p}})

\* Ptemp clamped into [0, 8].
Clamp(p) ==
    Only({IF RLt(PMax, v) THEN PMax ELSE IF RLt(v, PMin) THEN PMin ELSE v :
          v \in {p}})

\* update with the step taken against the mismatch.
updateStepReversed(a_l1, a_l2, a_m1, a_m2, a_P, a_iter) ==
    LET eta == StepSize(a_iter)
        ltemp == RSub(RAdd(RMul(Half, a_l1), RMul(Half, a_l2)), RMul(eta, a_m1))
        Ptemp == Clamp(RMul(ltemp, Half))
        mtemp == RSub(RAdd(RAdd(RMul(Half, a_m1), RMul(Half, a_m2)), a_P), Ptemp)
        term == /\ RLt(RAbs(mtemp), Tolerance)
                /\ RLt(RAbs(RSub(ltemp, a_l1)), Tolerance)
    IN  [l |-> ltemp, m |-> mtemp, P |-> Ptemp, terminate |-> term]

\* update that terminates on a small mismatch alone.
updateTerminateOnMismatch(a_l1, a_l2, a_m1, a_m2, a_P, a_iter) ==
    LET eta == StepSize(a_iter)
        ltemp == RAdd(RAdd(RMul(Half, a_l1), RMul(Half, a_l2)), RMul(eta, a_m1))
        Ptemp == Clamp(RMul(ltemp, Half))
        mtemp == RSub(RAdd(RAdd(RMul(Half, a_m1), RMul(Half, a_m2)), a_P), Ptemp)
        term == RLt(RAbs(mtemp), Tolerance)
    IN  [l |-> ltemp, m |-> mtemp, P |-> Ptemp, terminate |-> term]

\* update with the old and the new P exchanged in the mismatch.
updateDecisionSwapped(a_l1, a_l2, a_m1, a_m2, a_P, a_iter) ==
    LET eta == StepSize(a_iter)
        ltemp == RAdd(RAdd(RMul(Half, a_l1), RMul(Half, a_l2)), RMul(eta, a_m1))
        Ptemp == Clamp(RMul(ltemp, Half))
        mtemp == RSub(RAdd(RAdd(RMul(Half, a_m1), RMul(Half, a_m2)), Ptemp), a_P)
        term == /\ RLt(RAbs(mtemp), Tolerance)
                /\ RLt(RAbs(RSub(ltemp, a_l1)), Tolerance)
    IN  [l |-> ltemp, m |-> mtemp, P |-> Ptemp, terminate |-> term]

\* update with P taken from the lambda it was given.
updateDecisionFromPrior(a_l1, a_l2, a_m1, a_m2, a_P, a_iter) ==
    LET eta == StepSize(a_iter)
        ltemp == RAdd(RAdd(RMul(Half, a_l1), RMul(Half, a_l2)), RMul(eta, a_m1))
        Ptemp == Clamp(RMul(a_l1, Half))
        mtemp == RSub(RAdd(RAdd(RMul(Half, a_m1), RMul(Half, a_m2)), a_P), Ptemp)
        term == /\ RLt(RAbs(mtemp), Tolerance)
                /\ RLt(RAbs(RSub(ltemp, a_l1)), Tolerance)
    IN  [l |-> ltemp, m |-> mtemp, P |-> Ptemp, terminate |-> term]

\* update(l1, l2, m1, m2, P, iter): (ltemp, mtemp, Ptemp, terminate).  There is
\* no check of iter: with iter = 0 eta is +Inf and the results follow from it.
update(a_l1, a_l2, a_m1, a_m2, a_P, a_iter) ==
    LET eta == StepSize(a_iter)
        ltemp == RAdd(RAdd(RMul(Half, a_l1), RMul(Half, a_l2)), RMul(eta, a_m1))
        Ptemp == Clamp(RMul(ltemp, Half))
        mtemp == RSub(RAdd(RAdd(RMul(Half, a_m1), RMul(Half, a_m2)), a_P), Ptemp)
        term == /\ RLt(RAbs(mtemp), Tolerance)
                /\ RLt(RAbs(RSub(ltemp, a_l1)), Tolerance)
    IN  [l |-> ltemp, m |-> mtemp, P |-> Ptemp, terminate |-> term]

\* ----------------------------------------------------------------- Sprintf
\* fmt.Sprintf("%v", x) of a float64 is strconv's 'g' format with the shortest
\* digits that read back as x: exponent form when the decimal exponent is
\* below -4 or at least 6.  The shortest digits of <<m, e>> are those of m.
ExpLow == -4
ExpHigh == 6

\* The decimal digits of n >= 0.
RECURSIVE Digits(_)
Digits(n) ==
    IF n < 10 THEN <<DigitChars[n + 1]>>
    ELSE Digits(n \div 10) \o <<DigitChars[(n % 10) + 1]>>

Zeros(k) == [i \in 1..k |-> "0"]

\* %e: d.ddde+XX, the exponent with at least two digits.
FmtE(digs, e) ==
    LET a == Abs(e)
    IN  <<digs[1]>> \o (IF Len(digs) > 1 THEN <<".">> \o Tail(digs) ELSE <<>>)
        \o <<"e", IF e < 0 THEN "-" ELSE "+">>
        \o (IF a < 10 THEN <<"0">> ELSE <<>>) \o Digits(a)

\* %f with just the digits needed.
FmtF(digs, e) ==
    IF e < 0
    THEN <<"0", ".">> \o Zeros(-e - 1) \o digs
    ELSE IF Len(digs) <= e + 1
         THEN digs \o Zeros(e + 1 - Len(digs))
         ELSE SubSeq(digs, 1, e + 1) \o <<".">> \o SubSeq(digs, e + 2, Len(digs))

FormatFloat(x) ==
    IF x = NaN THEN <<"N", "a", "N">>
    ELSE IF x = PosInf THEN <<"+", "I", "n", "f">>
    ELSE IF x = NegInf THEN <<"-", "I", "n", "f">>
    ELSE IF x[1] = 0 THEN <<"0">>
    ELSE LET e == Exp10(x)
             digs == Digits(Abs(x[1]))
             body == IF e < ExpLow \/ e >= ExpHigh THEN FmtE(digs, e) ELSE FmtF(digs, e)
         IN  IF x[1] < 0 THEN <<"-">> \o body ELSE body

Sprintf(x) == Only({FormatFloat(v) : v \in {x}})

\* ---------------------------------------------------------------- payloads
\* Event payloads the peer's chaincode can post: "Lambda=<l>, Mismatch=<m>, end"
\* and texts that are not of that shape.
Payload(lt, mt) ==
    LambdaMarker \o lt \o <<",", " ">> \o MismatchMarker \o mt \o MismatchAhead

T_0 == <<"0">>
T_m3 == <<"-", "3">>
T_m8 == <<"-", "8">>
T_1p5 == <<"1", ".", "5">>
T_m1p5 == <<"-", "1", ".", "5">>
T_0p75 == <<"0", ".", "7", "5">>
T_m0p75 == <<"-", "0", ".", "7", "5">>
T_1p2p3 == <<"1", ".", "2", ".", "3">>
T_4000000 == <<"4", "0", "0", "0", "0", "0", "0">>

WellFormed ==
    { Payload(T_0, T_1p5), Payload(T_m3, T_m1p5), Payload(T_4000000, T_1p5),
      Payload(T_m8, T_0), Payload(T_0p75, T_m0p75) }

\* No marker at all; a captured lambda that is no number; no ", end" after the
\* mismatch.
NoMarkers == <<"g", "a", "r", "b", "a", "g", "e">>
BadLambda == Payload(T_1p2p3, T_0)
NoEnd == LambdaMarker \o T_0 \o <<",", " ">> \o MismatchMarker \o T_1p5

Malformed == {NoMarkers, BadLambda, NoEnd}
Payloads == WellFormed \cup Malformed

\* l2 := getLambda(payload); m2 := getMismatch(payload).
Decoded(p) == [lam |-> getLambda(p), mis |-> getMismatch(p)]

\* Decoded of every payload of Payloads, worked out once.
DecodeTable == [p \in Payloads |-> Decoded(p)]

\* getLambda and getMismatch of a payload.
Decode(p) ==
    Only({IF q \in Payloads THEN DecodeTable[q] ELSE Decoded(q) : q \in {p}})

\* Lines the operator can type.
Lines == {"y", "n", "exit"}

isYes(s) == s \in {"Y", "y", "Yes", "yes"}
isNo(s) == s \in {"N", "n", "No", "no"}
isExit(s) == s \in {"Exit", "exit", "EXIT"}

\* ------------------------------------------------------------------ state
VARIABLES
    pc,          \* where main is: AwaitingEvent, Publishing, Terminated (the
                 \* loop was left by break; main waits at the clean-up prompt),
                 \* Panicked, Returned, Exited; Calling and Called when
                 \* update is applied on its own
    registered,  \* the event registration reg is live
    gwOpen,      \* the gateway gw is open
    notifier,    \* the notifier channel: events delivered, not yet received
    delivered,   \* every payload the producer delivered, in order
    consumed,    \* every payload main received from notifier, in order
    published,   \* the SendUpdate transactions submitted so far
    l1, m1, P,   \* lambda, mismatch, P of main
    iter,        \* iteration counter of main
    terminate,   \* terminate flag of main
    args,        \* the arguments of the latest call of update
    Lambda,      \* the text of l1 main submits
    Mismatch,    \* the text of m1 main submits
    stdin,       \* lines typed, not yet read
    wallet,      \* the wallet directory exists
    panicMsg     \* the message of the panic that ended main, "" when none

vars == <<pc, registered, gwOpen, notifier, delivered, consumed, published,
          l1, m1, P, iter, terminate, args, Lambda, Mismatch, stdin, wallet,
          panicMsg>>

loopVars == <<l1, m1, P, terminate, args, Lambda, Mismatch>>

Init ==
    /\ pc = "AwaitingEvent"
    /\ registered = TRUE
    /\ gwOpen = TRUE
    /\ notifier = <<>>
    /\ delivered = <<>>
    /\ consumed = <<>>
    /\ published = <<>>
    /\ P = RInt(0)
    /\ l1 = RMul(RInt(2), RInt(0))
    /\ m1 = Rat(3, 2)
    /\ iter = 0
    /\ terminate = FALSE
    /\ args = [l1 |-> RInt(0), l2 |-> RInt(0), m1 |-> RInt(0), m2 |-> RInt(0),
               P |-> RInt(0), iter |-> 0]
    /\ Lambda = <<>>
    /\ Mismatch = <<>>
    /\ stdin = <<>>
    /\ wallet = TRUE
    /\ panicMsg = ""

\* ---------------------------------------------------------------- actions
\* The ledger's event service puts one more "Org2" event on the channel.
Deliver(p) ==
    /\ registered
    /\ Len(delivered) < MaxEvents
    /\ Len(notifier) < MaxQueue
    /\ notifier' = Append(notifier, p)
    /\ delivered' = Append(delivered, p)
    /\ UNCHANGED <<pc, registered, gwOpen, consumed, published, iter, stdin,
                   wallet, panicMsg>>
    /\ UNCHANGED loopVars

\* Deferred calls without the Unregister.
DeferredCloseOnly ==
    /\ UNCHANGED registered
    /\ gwOpen' = FALSE

\* The deferred calls that run when main returns or panics:
\* contract.Unregister(reg) and gw.Close().
Deferred ==
    /\ registered' = FALSE
    /\ gwOpen' = FALSE

\* A panic in main: the deferred calls run and the process ends.
Panic(msg) ==
    /\ pc' = "Panicked"
    /\ panicMsg' = msg
    /\ Deferred

\* The newest event of the channel instead of the oldest.
ReceivedNewest(q) == q[Len(q)]

\* event := <-notifier: a channel hands out its oldest element.
Received(q) == Head(q)

\* The counter advanced only by a round that decoded its payload.
NextIterOnSuccess(failed) == IF failed THEN iter ELSE iter + 1

\* iter += 1, before the payload is decoded.
NextIter(failed) == iter + 1

\* The mismatch text taken from m1 before update's result is assigned.
FormatArgsStale(l, m) == [Lambda |-> Sprintf(l), Mismatch |-> Sprintf(m1)]

\* Lambda := fmt.Sprintf("%v", l1); Mismatch := fmt.Sprintf("%v", m1).
FormatArgs(l, m) == [Lambda |-> Sprintf(l), Mismatch |-> Sprintf(m)]

\* update called with the counter as it was before iter += 1.
CallIterBefore(before, after) == before

\* The iter update is called with: iter += 1 comes first in the case body, the
\* call of update after it.
CallIter(before, after) == after

\* case event := <-notifier: count the iteration, decode the payload, run
\* update and format its result; a decode failure panics.
ReceiveEvent ==
    /\ pc = "AwaitingEvent"
    /\ notifier # <<>>
    /\ \E payload \in {Received(notifier)} :
       \E d \in {Decode(payload)} :
       \E it \in {NextIter(d.lam.err \/ d.mis.err)} :
          /\ notifier' = Tail(notifier)
          /\ consumed' = Append(consumed, payload)
          /\ iter' = it
          /\ IF d.lam.err
             THEN Panic("Error capturing lambda") /\ UNCHANGED loopVars
             ELSE IF d.mis.err
             THEN Panic("Error capturing mismatch") /\ UNCHANGED loopVars
             ELSE \E r \in {update(l1, d.lam.val, m1, d.mis.val, P,
                                   CallIter(iter, it))} :
                  \E text \in {FormatArgs(r.l, r.m)} :
                     /\ args' = [l1 |-> l1, l2 |-> d.lam.val, m1 |-> m1,
                                 m2 |-> d.mis.val, P |-> P,
                                 iter |-> CallIter(iter, it)]
                     /\ l1' = r.l
                     /\ m1' = r.m
                     /\ P' = r.P
                     /\ terminate' = r.terminate
                     /\ Lambda' = text.Lambda
                     /\ Mismatch' = text.Mismatch
                     /\ pc' = "Publishing"
                     /\ UNCHANGED <<registered, gwOpen, panicMsg>>
    /\ UNCHANGED <<delivered, published, stdin, wallet>>

\* The loop left after every publish.
AfterSubmitAlwaysBreak(term) == "Terminated"

\* The publish repeated instead of waiting for the next event.
AfterSubmitRepublish(term) == IF term THEN "Terminated" ELSE "Publishing"

\* if terminate { break iterLoop }, else the next pass of the loop.
AfterSubmit(term) == IF term THEN "Terminated" ELSE "AwaitingEvent"

\* A publish that also resets P.
SubmitOKResetting ==
    /\ pc = "Publishing"
    /\ published' = Append(published, [fn |-> "SendUpdate", Lambda |-> Lambda,
                                       Mismatch |-> Mismatch])
    /\ pc' = AfterSubmit(terminate)
    /\ registered' = IF pc' = "Terminated" THEN FALSE ELSE registered
    /\ P' = PMin
    /\ UNCHANGED <<gwOpen, notifier, delivered, consumed, iter, stdin, wallet,
                   panicMsg>>
    /\ UNCHANGED <<l1, m1, terminate, args, Lambda, Mismatch>>

\* contract.SubmitTransaction("SendUpdate", Lambda, Mismatch) succeeds; with
\* terminate set the loop is left and contract.Unregister(reg) runs.
SubmitOK ==
    /\ pc = "Publishing"
    /\ published' = Append(published, [fn |-> "SendUpdate", Lambda |-> Lambda,
                                       Mismatch |-> Mismatch])
    /\ pc' = AfterSubmit(terminate)
    /\ registered' = IF pc' = "Terminated" THEN FALSE ELSE registered
    /\ UNCHANGED <<gwOpen, notifier, delivered, consumed, iter, stdin, wallet,
                   panicMsg>>
    /\ UNCHANGED loopVars

\* A failed publish that is skipped: the loop waits for the next event.
SubmitFailSkipped ==
    /\ pc = "Publishing"
    /\ pc' = "AwaitingEvent"
    /\ UNCHANGED <<registered, gwOpen, panicMsg>>
    /\ UNCHANGED <<notifier, delivered, consumed, published, iter, stdin, wallet>>
    /\ UNCHANGED loopVars

\* contract.SubmitTransaction returns an error: main panics.
SubmitFail ==
    /\ pc = "Publishing"
    /\ Panic("failed to submit transaction")
    /\ UNCHANGED <<notifier, delivered, consumed, published, iter, stdin, wallet>>
    /\ UNCHANGED loopVars

\* The operator types a line.
OperatorInput(s) ==
    /\ Len(stdin) < MaxStdin
    /\ stdin' = Append(stdin, s)
    /\ UNCHANGED <<pc, registered, gwOpen, notifier, delivered, consumed,
                   published, iter, wallet, panicMsg>>
    /\ UNCHANGED loopVars

\* cleanUp removes the wallet directory.
cleanUp == wallet' = FALSE

\* "Clean up?": catchOneInput reads a line; "exit" ends the process at once
\* (os.Exit runs no deferred call), "y" cleans up, then main returns.
CleanUpPrompt ==
    /\ pc = "Terminated"
    /\ stdin # <<>>
    /\ stdin' = Tail(stdin)
    /\ IF isExit(Head(stdin))
       THEN pc' = "Exited" /\ UNCHANGED <<registered, gwOpen, wallet>>
       ELSE /\ pc' = "Returned"
            /\ Deferred
            /\ IF isYes(Head(stdin)) THEN cleanUp ELSE UNCHANGED wallet
    /\ UNCHANGED <<notifier, delivered, consumed, published, iter, panicMsg>>
    /\ UNCHANGED loopVars

Next ==
    \/ \E p \in Payloads : Deliver(p)
    \/ ReceiveEvent
    \/ SubmitOK
    \/ SubmitFail
    \/ \E s \in Lines : OperatorInput(s)
    \/ CleanUpPrompt

Spec == Init /\ [][Next]_vars

\* main runs whenever it can; the producer and the operator owe nothing.
FairSpec ==
    /\ Spec
    /\ WF_vars(ReceiveEvent)
    /\ WF_vars(SubmitOK \/ SubmitFail)
    /\ WF_vars(CleanUpPrompt)

\* ------------------------------------------------- the echoing peer
\* The payload of a peer whose event carries the pair main published last:
\* the texts of the last SendUpdate, and of the initial pair 0 and 1.5 before
\* the first.
EchoPayload ==
    IF published = <<>> THEN Payload(T_0, T_1p5)
    ELSE Payload(published[Len(published)].Lambda,
                 published[Len(published)].Mismatch)

\* The peer answers every publish with one event.
DeliverEcho ==
    /\ registered
    /\ Len(delivered) = Len(published)
    /\ Len(delivered) < MaxRounds
    /\ notifier' = Append(notifier, EchoPayload)
    /\ delivered' = Append(delivered, EchoPayload)
    /\ UNCHANGED <<pc, registered, gwOpen, consumed, published, iter, stdin,
                   wallet, panicMsg>>
    /\ UNCHANGED loopVars

EchoNext ==
    \/ DeliverEcho
    \/ ReceiveEvent
    \/ SubmitOK

\* Events keep arriving, main runs whenever it can and every publish succeeds.
EchoSpec ==
    /\ Init
    /\ [][EchoNext]_vars
    /\ WF_vars(DeliverEcho)
    /\ WF_vars(ReceiveEvent)
    /\ WF_vars(SubmitOK)

\* ------------------------------------------------- update on its own
\* Arguments update is applied to: lambdas, mismatches, values of P and iter,
\* among them the initial state, values that clamp P and iter = 0 and -1.
Rates == {RInt(0), Rat(3, 2), RInt(-3), RInt(40), Rat(29, 10)}
Mismatches == {Rat(3, 2), RInt(0), Rat(-3, 2), Rat(4, 100)}
Decisions == {RInt(0), Rat(3, 4), RInt(8)}
IterArgs == -1..MaxIterArg

\* A caller about to call update(args): l1, m1, P and iter hold what it passes.
UpdateInit ==
    /\ pc = "Calling"
    /\ args \in [l1 : Rates, l2 : Rates, m1 : Mismatches, m2 : Mismatches,
                  P : Decisions, iter : IterArgs]
    /\ l1 = args.l1
    /\ m1 = args.m1
    /\ P = args.P
    /\ iter = args.iter
    /\ terminate = FALSE
    /\ registered = TRUE
    /\ gwOpen = TRUE
    /\ notifier = <<>>
    /\ delivered = <<>>
    /\ consumed = <<>>
    /\ published = <<>>
    /\ Lambda = <<>>
    /\ Mismatch = <<>>
    /\ stdin = <<>>
    /\ wallet = TRUE
    /\ panicMsg = ""

\* l1, m1, P, terminate = update(l1, l2, m1, m2, P, iter): the call returns
\* four values and has no other outcome.
CallUpdate ==
    /\ pc = "Calling"
    /\ \E r \in {update(args.l1, args.l2, args.m1, args.m2, args.P, args.iter)} :
          /\ l1' = r.l
          /\ m1' = r.m
          /\ P' = r.P
          /\ terminate' = r.terminate
    /\ pc' = "Called"
    /\ UNCHANGED <<registered, gwOpen, notifier, delivered, consumed, published,
                   iter, args, Lambda, Mismatch, stdin, wallet, panicMsg>>

UpdateNext == CallUpdate

UpdateSpec == UpdateInit /\ [][UpdateNext]_vars

\* ------------------------------------------------------------- properties
LoopExited == pc \in {"Terminated", "Panicked", "Returned", "Exited"}
DecodeFails(p) == Decode(p).lam.err \/ Decode(p).mis.err
SubmitPanic == pc = "Panicked" /\ panicMsg = "failed to submit transaction"
DecodePanic ==
    /\ pc = "Panicked"
    /\ panicMsg \in {"Error capturing lambda", "Error capturing mismatch"}
\* The result of the latest call of update.
LastUpdate == update(args.l1, args.l2, args.m1, args.m2, args.P, args.iter)
\* The operator has typed the exit command and it has not been read.
ShutdownRequested == \E i \in 1..Len(stdin) : isExit(stdin[i])

\* C1: every publish answers one consumed event that was not yet answered: the
\* publishes never outnumber the events consumed, a publish is made only from
\* Publishing, one at a time, and with no event in the channel the loop stays
\* in AwaitingEvent and publishes nothing.
C1_StrictAlternation ==
    /\ [](/\ Len(published) <= Len(consumed)
          /\ pc = "AwaitingEvent" => Len(published) = Len(consumed)
          /\ pc = "Publishing" => Len(published) + 1 = Len(consumed))
    /\ [][/\ published' # published =>
               pc = "Publishing" /\ Len(published') = Len(published) + 1
          /\ (pc = "AwaitingEvent" /\ notifier = <<>>) =>
               (pc' = "AwaitingEvent" /\ published' = published)]_vars

\* Two rounds were answered and the loop waits on an empty channel.
C1_Witness ==
    pc = "AwaitingEvent" /\ notifier = <<>> /\ Len(published) = 2 /\ Len(consumed) = 2

C3_TerminatedOnlyAfterPublish ==
    /\ [](pc = "Publishing" => terminate = LastUpdate.terminate)
    /\ [][/\ (pc' = "Terminated" /\ pc # "Terminated") =>
               /\ pc = "Publishing"
               /\ terminate
               /\ Len(published') = Len(published) + 1
          /\ (pc = "Publishing" /\ ~terminate /\ published' # published) =>
               pc' = "AwaitingEvent"
          /\ LoopExited =>
               (consumed' = consumed /\ published' = published /\ LoopExited')]_vars

\* The loop was left in the second round, with an event still in the channel.
C3_Witness ==
    /\ pc = "Terminated"
    /\ terminate
    /\ iter = 2
    /\ Len(published) = 2
    /\ notifier # <<>>

\* C4: a publish that fails is fatal: a round leaves Publishing without a
\* publish only by a panic, after which nothing is consumed or published, and
\* at the failure l1, m1 and P hold the result of that round's update.
C4_PublishFailureFatal ==
    /\ [](SubmitPanic =>
             /\ args.iter = iter
             /\ <<l1, m1, P>> = <<LastUpdate.l, LastUpdate.m, LastUpdate.P>>
             /\ Len(published) + 1 = Len(consumed))
    /\ [][/\ (pc = "Publishing" /\ pc' # pc /\ published' = published) =>
               (SubmitPanic' /\ UNCHANGED <<l1, m1, P, consumed>>)
          /\ SubmitPanic =>
               (pc' = pc /\ consumed' = consumed /\ published' = published
                /\ UNCHANGED <<l1, m1, P>>)]_vars

\* The publish of the second round failed after the round changed the state.
C4_Witness ==
    /\ SubmitPanic
    /\ iter = 2
    /\ <<l1, m1, P>> # <<args.l1, args.m1, args.P>>
    /\ l1 # args.l1
    /\ notifier # <<>>

\* C5 as stated: a shutdown requested while the loop is in AwaitingEvent makes
\* the loop leave AwaitingEvent and release the registration, whether or not
\* another event arrives.
C5_ShutdownLeavesAwaiting ==
    (ShutdownRequested /\ pc = "AwaitingEvent")
        ~> (pc # "AwaitingEvent" /\ ~registered)

\* C6: the registration is live while the loop runs and released in every
\* state the loop has been left in: by break, by a decode panic, by a submit
\* panic, and after main returned or exited.
C6_UnregisteredOnEveryExit ==
    /\ pc \in {"AwaitingEvent", "Publishing"} => registered
    /\ LoopExited => ~registered

\* A decode failure ended the loop.
C6_Witness == DecodePanic /\ ~registered /\ iter = 1

\* C7: iter starts at 0, grows by exactly 1 with every event consumed, also
\* in a round that fails, and is changed by nothing else.
C7_IterCountsConsumed ==
    /\ [](iter = Len(consumed))
    /\ [][\/ (iter' = iter /\ consumed' = consumed)
          \/ (iter' = iter + 1 /\ Len(consumed') = Len(consumed) + 1)]_vars

\* Three events were consumed and the third round failed to decode.
C7_Witness == DecodePanic /\ iter = 3 /\ Len(published) = 2

\* C8: P lies in [0, 8] in every reachable state.
C8_DecisionInRange == ~RLt(P, PMin) /\ ~RLt(PMax, P)

\* A round whose lambda / 2 exceeded 8 was clamped to 8.
C8_Witness == P = PMax /\ RLt(RMul(RInt(2), PMax), l1) /\ iter >= 1

\* C9: the events are consumed one at a time in the order delivered, none
\* skipped or repeated, and an event is taken only in AwaitingEvent, when
\* every earlier event has been answered.
C9_SingleConsumerInOrder ==
    /\ [](consumed \o notifier = delivered)
    /\ [][consumed' # consumed =>
             /\ pc = "AwaitingEvent"
             /\ Len(published) = Len(consumed)
             /\ consumed' = Append(consumed, Head(notifier))
             /\ notifier' = Tail(notifier)]_vars

\* Two different events wait in the channel while a round is being published.
C9_Witness ==
    /\ pc = "Publishing"
    /\ Len(consumed) = 1
    /\ Len(notifier) = 2
    /\ notifier[1] # notifier[2]

\* C10: l1 and m1 are always the pair one call of update returned, and every
\* publish carries the texts of that pair.
C10_PairedUpdate ==
    /\ []((iter > 0 /\ ~DecodePanic) =>
             \E r \in {LastUpdate} : l1 = r.l /\ m1 = r.m)
    /\ [][published' # published =>
             /\ args.iter = iter
             /\ \E r \in {LastUpdate} :
                   published' = Append(published,
                       [fn |-> "SendUpdate", Lambda |-> Sprintf(r.l),
                        Mismatch |-> Sprintf(r.m)])]_vars

\* A second publish whose lambda and mismatch both moved in that round.
C10_Witness ==
    /\ Len(published) = 2
    /\ published[2].Lambda # published[1].Lambda
    /\ published[2].Mismatch # published[1].Mismatch
    /\ published[2].Lambda # published[2].Mismatch

\* x is the number of Precision digits nearest to n / d, for n, d > 0.
IsNearest(x, n, d) ==
    LET u == Exp10(x) - Precision + 1
        M == x[1] * Pow10(x[2] - u)
    IN  x[1] > 0 /\ u <= 0 /\ 2 * Abs(M * d - n * Pow10(-u)) <= d

\* v clamped into [0, 8].
Clamped(v) ==
    IF RLt(v, RInt(0)) THEN RInt(0) ELSE IF RLt(RInt(8), v) THEN RInt(8) ELSE v

\* C11: with a peer whose every event carries the pair main published last
\* (0 and 1.5 for the first event), events that keep arriving and publishes
\* that succeed, the loop eventually computes terminate = true and is left by
\* break.
C11_EchoConverges == <>(pc = "Terminated" /\ terminate)

\* The loop was left after more rounds than the step size takes to reach its
\* floor, every round answered by one publish.
C11_Witness ==
    /\ pc = "Terminated"
    /\ terminate
    /\ iter > 20
    /\ Len(published) = iter
    /\ delivered[1] = Payload(T_0, T_1p5)
    /\ delivered[iter] = Payload(published[iter - 1].Lambda,
                                 published[iter - 1].Mismatch)

\* C12: the terminate update returns is true exactly when the new mismatch is
\* below 0.05 in magnitude and the new lambda is within 0.05 of the lambda
\* passed in; with only one of the two it is false.
C12_TerminateIffBoth ==
    pc = "Called" =>
        (terminate <=> (/\ RLt(RAbs(m1), Rat(5, 100))
                        /\ RLt(RAbs(RSub(l1, args.l1)), Rat(5, 100))))

\* A call whose new mismatch is small while lambda moved far: no termination.
C12_Witness ==
    /\ pc = "Called"
    /\ args.iter >= 1
    /\ RLt(RAbs(m1), Rat(5, 100))
    /\ ~RLt(RAbs(RSub(l1, args.l1)), Rat(5, 100))
    /\ ~terminate

\* C13 as stated: update called with iter <= 0 fails with InvalidRoundIndex
\* and returns no new state.
C13_RoundZeroFailsFast ==
    (pc = "Called" /\ args.iter <= 0) =>
        /\ panicMsg = "InvalidRoundIndex"
        /\ <<l1, m1, P>> = <<args.l1, args.m1, args.P>>

\* C14 as stated: the texts main is about to publish, put into a payload
\* "Lambda=<l>, Mismatch=<m>, end", decode without a failure to the very
\* lambda and mismatch they were formatted from.
C14_PublishedTextRoundTrips ==
    pc = "Publishing" =>
        /\ ~DecodeFails(Payload(Lambda, Mismatch))
        /\ Decode(Payload(Lambda, Mismatch)).lam.val = l1
        /\ Decode(Payload(Lambda, Mismatch)).mis.val = m1

\* C15: for iter >= 1 the step size is the larger of 1 / iter and 0.05: the
\* number nearest to 1 / iter up to iter = 20, exactly 0.05 from iter = 20 on,
\* never below 0.05 and never larger than the step size of the round before.
C15_StepSize ==
    args.iter >= 1 =>
        /\ args.iter <= 20 => IsNearest(StepSize(args.iter), 1, args.iter)
        /\ args.iter >= 20 => StepSize(args.iter) = Norm(5, -2)
        /\ ~RLt(StepSize(args.iter), Norm(5, -2))
        /\ ~RLt(StepSize(args.iter), StepSize(args.iter + 1))

\* A call past round 20 moved lambda by 0.05 times a mismatch that is not 0.
C15_Witness ==
    /\ pc = "Called"
    /\ args.iter > 20
    /\ args.m1 # RInt(0)
    /\ l1 = RAdd(RAdd(RMul(Rat(1, 2), args.l1), RMul(Rat(1, 2), args.l2)),
                 RMul(Norm(5, -2), args.m1))

\* C16: for iter >= 1 update returns the lambda
\* 0.5 * l1 + 0.5 * l2 + eta * m1, the P that is half of it clamped into
\* [0, 8], and the mismatch 0.5 * m1 + 0.5 * m2 + P - new P; from l1 = 0,
\* m1 = 1.5, P = 0 and the peer's 0 and 1.5 in round 1 it returns lambda 1.5,
\* P 0.75, mismatch 0.75 and terminate = false.
C16_UpdateFormula ==
    (pc = "Called" /\ args.iter >= 1) =>
        LET eta == IF args.iter <= 20 THEN Rat(1, args.iter) ELSE Norm(5, -2)
            newRate == RAdd(RAdd(RMul(Rat(1, 2), args.l1),
                                 RMul(Rat(1, 2), args.l2)),
                            RMul(eta, args.m1))
            newDecision == Clamped(RMul(newRate, Rat(1, 2)))
            newMismatch == RSub(RAdd(RAdd(RMul(Rat(1, 2), args.m1),
                                          RMul(Rat(1, 2), args.m2)),
                                     args.P),
                                newDecision)
        IN  /\ l1 = newRate
            /\ P = newDecision
            /\ m1 = newMismatch
            /\ args = [l1 |-> RInt(0), l2 |-> RInt(0), m1 |-> Rat(3, 2),
                       m2 |-> Rat(3, 2), P |-> RInt(0), iter |-> 1] =>
                   /\ <<l1, P, m1>> = <<Rat(3, 2), Rat(3, 4), Rat(3, 4)>>
                   /\ ~terminate

\* The first round of the initial state was computed.
C16_Witness ==
    /\ pc = "Called"
    /\ args = [l1 |-> RInt(0), l2 |-> RInt(0), m1 |-> Rat(3, 2),
               m2 |-> Rat(3, 2), P |-> RInt(0), iter |-> 1]
    /\ l1 = Norm(15, -1)
    /\ ~terminate

\* C17: main starts with lambda 0, mismatch 1.5, P 0 and iter 0; lambda,
\* mismatch and P change only in the step that receives an event and runs
\* update, once in that step, to what update returns for the event; waiting,
\* a delivery, a publish and everything after the loop leave them unchanged.
C17_StateChangesOnlyInUpdating ==
    /\ [](consumed = <<>> =>
             (l1 = RInt(0) /\ m1 = Rat(3, 2) /\ P = RInt(0) /\ iter = 0))
    /\ [][IF pc = "AwaitingEvent" /\ pc' = "Publishing"
          THEN \E d \in {Decode(Head(notifier))} :
               \E r \in {update(l1, d.lam.val, m1, d.mis.val, P, iter + 1)} :
                  /\ iter' = iter + 1
                  /\ <<l1', m1', P'>> = <<r.l, r.m, r.P>>
          ELSE UNCHANGED <<l1, m1, P>>]_vars

\* Two rounds were completed, each changed the state, and the loop waits.
C17_Witness ==
    /\ pc = "AwaitingEvent"
    /\ iter = 2
    /\ Len(published) = 2
    /\ <<l1, m1, P>> # <<args.l1, args.m1, args.P>>
    /\ args.l1 # RInt(0)

\* C18: whenever the loop waits for an event, at the start and after every
\* completed round, P is half of lambda clamped into [0, 8].
C18_DecisionFollowsRate ==
    pc = "AwaitingEvent" => P = Clamped(RMul(l1, Rat(1, 2)))

\* The loop waits after a round that moved lambda and left P inside (0, 8).
C18_Witness ==
    /\ pc = "AwaitingEvent"
    /\ iter >= 1
    /\ l1 # args.l1
    /\ RLt(RInt(0), P)
    /\ RLt(P, RInt(8))

\* C19: the loop never calls update with iter below 1: iter is incremented
\* before the call, the first call has iter = 1, and the step size of every
\* call is a finite quotient.
C19_UpdateIterAtLeastOne ==
    /\ [](pc = "Publishing" => (args.iter >= 1 /\ args.iter = iter))
    /\ [][args' # args =>
             /\ args'.iter = iter + 1
             /\ args'.iter >= 1
             /\ iter = 0 => args'.iter = 1
             /\ IsFinite(StepSize(args'.iter))]_vars

\* The first call of update was made, with iter = 1.
C19_Witness ==
    /\ pc = "Publishing"
    /\ Len(consumed) = 1
    /\ args.iter = 1
    /\ StepSize(args.iter) = RInt(1)

====
